---- MODULE Spec2Model ----
(***************************************************************************)
(* Model of notebooks/geog308_pysal_tutorial.ipynb: one top-to-bottom run  *)
(* of the notebook's code cells.  The state is the kernel's variables      *)
(* (listings, geometries, neighborhoods, df, median_price), the files on   *)
(* disk, the figures drawn and the position of the run.  Each statement of *)
(* a code cell that changes state is one action.                           *)
(*                                                                         *)
(* A text cell is [str |-> <<one-character strings>>].  A float64 cell is  *)
(* the exact rational [num |-> n, den |-> d] in lowest terms; NaN, which   *)
(* pandas also uses for a missing text cell, is [num |-> 0, den |-> 0].    *)
(***************************************************************************)
EXTENDS Integers, Sequences, FiniteSets, TLC

VARIABLES pc, files, listings, geometries, neighborhoods, df, median_price,
          figures, failedAt, writes, reads

vars == <<pc, files, listings, geometries, neighborhoods, df, median_price,
          figures, failedAt, writes, reads>>

(***************************************************************************)
(* Bounds of the model.                                                    *)
(***************************************************************************)
\* most listings in a scenario
MaxListings == 2
\* most neighbourhoods in a scenario
MaxHoods == 2
\* most ",ddd" thousands groups in a generated price text
MaxGroups == 1
\* most digits after the decimal point in a generated price text
MaxFracLen == 2
\* corners of the generated neighbourhood rectangles lie in 0..MaxCoord
MaxCoord == 3

None == "None"
NaN == [num |-> 0, den |-> 0]
\* the value of an operator whose Python counterpart raises
Error == [raised |-> TRUE]

Str(s) == [str |-> s]

IsNaN(v) == v = NaN

(***************************************************************************)
(* float64 values as exact rationals.                                      *)
(***************************************************************************)
RECURSIVE GCD(_, _)
GCD(a, b) == IF b = 0 THEN a ELSE GCD(b, a % b)

Rat(n, d) == LET g == GCD(n, d) IN [num |-> n \div g, den |-> d \div g]

RatAdd(a, b) == Rat(a.num * b.den + b.num * a.den, a.den * b.den)

RatDivInt(a, k) == Rat(a.num, a.den * k)

RatLeq(a, b) == a.num * b.den <= b.num * a.den

RECURSIVE Pow(_, _)
Pow(b, e) == IF e = 0 THEN 1 ELSE b * Pow(b, e - 1)

(***************************************************************************)
(* listings.price.str.replace('$', '').str.replace(',', '_').astype(float) *)
(***************************************************************************)
DigitChars == <<"0", "1", "2", "3", "4", "5", "6", "7", "8", "9">>

IsDigit(c) == \E i \in 1..10 : DigitChars[i] = c

DigitVal(c) == (CHOOSE i \in 1..10 : DigitChars[i] = c) - 1

\* str.replace with the pattern read as a regular expression: '$' is the
\* end-of-text anchor, so the replacement lands after the last character
RECURSIVE StrReplace_Regex(_, _, _)
StrReplace_Regex(s, pat, repl) ==
    IF pat = "$" THEN s \o repl
    ELSE IF s = <<>> THEN <<>>
    ELSE (IF Head(s) = pat THEN repl ELSE <<Head(s)>>)
         \o StrReplace_Regex(Tail(s), pat, repl)

\* str.replace(pat, repl) with a one-character pat: pandas takes a pattern of
\* length one literally, every occurrence is replaced.
RECURSIVE StrReplace(_, _, _)
StrReplace(s, pat, repl) ==
    IF s = <<>> THEN <<>>
    ELSE (IF Head(s) = pat THEN repl ELSE <<Head(s)>>)
         \o StrReplace(Tail(s), pat, repl)

\* Series.str.replace: a missing value stays missing.
SeriesStrReplace(v, pat, repl) ==
    IF IsNaN(v) THEN NaN ELSE Str(StrReplace(v.str, pat, repl))

\* Python's digitpart: digit (["_"] digit)*
DigitPartOK(p) ==
    /\ p # <<>>
    /\ \A i \in 1..Len(p) : IsDigit(p[i]) \/ p[i] = "_"
    /\ IsDigit(p[1]) /\ IsDigit(p[Len(p)])
    /\ \A i \in 1..(Len(p) - 1) : ~(p[i] = "_" /\ p[i + 1] = "_")

RECURSIVE DigitsValue(_)
DigitsValue(p) ==
    IF p = <<>> THEN 0
    ELSE LET front == SubSeq(p, 1, Len(p) - 1)
             last == p[Len(p)]
         IN IF last = "_" THEN DigitsValue(front)
            ELSE 10 * DigitsValue(front) + DigitVal(last)

NumDigits(p) == Cardinality({i \in 1..Len(p) : IsDigit(p[i])})

\* float(str) on a decimal literal without sign or exponent; anything else
\* raises ValueError.
PyFloat(s) ==
    LET dots == {i \in 1..Len(s) : s[i] = "."}
        cut == IF dots = {} THEN Len(s) + 1
               ELSE CHOOSE i \in dots : \A j \in dots : i <= j
        ip == SubSeq(s, 1, cut - 1)
        fp == SubSeq(s, cut + 1, Len(s))
        ok == /\ ip = <<>> \/ DigitPartOK(ip)
              /\ fp = <<>> \/ DigitPartOK(fp)
              /\ ~(ip = <<>> /\ fp = <<>>)
    IN IF ~ok THEN Error
       ELSE Rat(DigitsValue(ip) * Pow(10, NumDigits(fp)) + DigitsValue(fp),
                Pow(10, NumDigits(fp)))

\* astype(float) on one cell of an object column
AsFloat(v) == IF IsNaN(v) THEN NaN ELSE PyFloat(v.str)

CleanPrice(v) ==
    AsFloat(SeriesStrReplace(SeriesStrReplace(v, "$", <<>>), ",", <<"_">>))

(***************************************************************************)
(* Geometries.  A geometry is [gtype, parts]: a Point's parts are <<x, y>>,*)
(* a Polygon's parts are its rings (each a closed sequence of <<x, y>>),   *)
(* a MultiPolygon's parts are the rings-sequences of its polygons.         *)
(* Coordinates are float64 values on the integer grid 0..31; any other     *)
(* double is OutOfGrid.                                                    *)
(***************************************************************************)
OutOfGrid == 0 - 1

Point(x, y) == [gtype |-> "Point", parts |-> <<x, y>>]

Polygon(rings) == [gtype |-> "Polygon", parts |-> rings]

MultiPolygon(polys) == [gtype |-> "MultiPolygon", parts |-> polys]

RECURSIVE Concat(_)
Concat(ss) == IF ss = <<>> THEN <<>> ELSE Head(ss) \o Concat(Tail(ss))

Reverse(s) == [i \in 1..Len(s) |-> s[Len(s) + 1 - i]]

(***************************************************************************)
(* Well-known binary (OGC 06-103r4, 8.2.3): a byte-order byte (0 = XDR,    *)
(* big endian; 1 = NDR, little endian), a uint32 geometry type, then the   *)
(* body with uint32 counts and IEEE-754 binary64 coordinates.              *)
(***************************************************************************)
UpperHex == <<"0", "1", "2", "3", "4", "5", "6", "7", "8", "9",
              "A", "B", "C", "D", "E", "F">>

LowerHex == <<"0", "1", "2", "3", "4", "5", "6", "7", "8", "9",
              "a", "b", "c", "d", "e", "f">>

HexChars == {UpperHex[i] : i \in 1..16} \cup {LowerHex[i] : i \in 1..16}

HexTable ==
    [c \in HexChars |->
        (CHOOSE i \in 1..16 : UpperHex[i] = c \/ LowerHex[i] = c) - 1]

IsHex(c) == c \in HexChars

HexVal(c) == HexTable[c]

\* a hex text: an even number of hex digits
HexOK(h) == Len(h) % 2 = 0 /\ \A i \in 1..Len(h) : IsHex(h[i])

\* the bytes of a hex text
HexToBytes(h) ==
    [i \in 1..(Len(h) \div 2) |-> 16 * HexVal(h[2 * i - 1]) + HexVal(h[2 * i])]

BytesToHex(b) ==
    [i \in 1..(2 * Len(b)) |->
        IF i % 2 = 1 THEN UpperHex[(b[(i + 1) \div 2] \div 16) + 1]
        ELSE UpperHex[(b[i \div 2] % 16) + 1]]

Order(bytes, le) == IF le THEN Reverse(bytes) ELSE bytes

\* a writer that emits its uint32 fields big-endian whatever the byte order
U32Bytes_BigEndian(n, le) ==
    <<(n \div 16777216) % 256, (n \div 65536) % 256, (n \div 256) % 256, n % 256>>

U32Bytes(n, le) ==
    Order(<<(n \div 16777216) % 256, (n \div 65536) % 256,
            (n \div 256) % 256, n % 256>>, le)

U32At(b, p, le) ==
    LET w == Order(SubSeq(b, p, p + 3), le)
    IN ((w[1] * 256 + w[2]) * 256 + w[3]) * 256 + w[4]

RECURSIVE Log2(_)
Log2(v) == IF v < 2 THEN 0 ELSE 1 + Log2(v \div 2)

\* binary64 of a grid value: sign 0, biased exponent 1023 + e, and the top
\* four fraction bits; the lower 48 fraction bits are zero for 0..31
F64Bytes(v, le) ==
    LET e == Log2(v)
        bexp == 1023 + e
        frac == ((v - Pow(2, e)) * 16) \div Pow(2, e)
    IN Order(IF v = 0 THEN <<0, 0, 0, 0, 0, 0, 0, 0>>
             ELSE IF v < 0 THEN <<191, 240, 0, 0, 0, 0, 0, 0>>
             ELSE <<bexp \div 16, (bexp % 16) * 16 + frac, 0, 0, 0, 0, 0, 0>>,
             le)

F64At(b, p, le) ==
    LET w == Order(SubSeq(b, p, p + 7), le)
        bexp == (w[1] % 128) * 16 + (w[2] \div 16)
        sig == 16 + (w[2] % 16)
        low0 == \A i \in 3..8 : w[i] = 0
    IN IF \A i \in 1..8 : w[i] = 0 THEN 0
       ELSE IF /\ low0 /\ w[1] < 128 /\ bexp >= 1023 /\ bexp <= 1027
               /\ (sig * Pow(2, bexp - 1023)) % 16 = 0
            THEN (sig * Pow(2, bexp - 1023)) \div 16
       ELSE OutOfGrid

Fail == [ok |-> FALSE, val |-> <<>>, pos |-> 0]

Got(v, p) == [ok |-> TRUE, val |-> v, pos |-> p]

ReadPoints(b, p, n, le) ==
    IF p + 16 * n - 1 > Len(b) THEN Fail
    ELSE Got([i \in 1..n |-> <<F64At(b, p + 16 * (i - 1), le),
                               F64At(b, p + 16 * (i - 1) + 8, le)>>],
             p + 16 * n)

ReadRing(b, p, le) ==
    IF p + 3 > Len(b) THEN Fail ELSE ReadPoints(b, p + 4, U32At(b, p, le), le)

RECURSIVE ReadRings(_, _, _, _)
ReadRings(b, p, k, le) ==
    IF k = 0 THEN Got(<<>>, p)
    ELSE LET r == ReadRing(b, p, le)
         IN IF ~r.ok THEN Fail
            ELSE LET rest == ReadRings(b, r.pos, k - 1, le)
                 IN IF ~rest.ok THEN Fail
                    ELSE Got(<<r.val>> \o rest.val, rest.pos)

RECURSIVE ReadGeom(_, _)
RECURSIVE ReadPolygons(_, _, _)
ReadPolygons(b, p, k) ==
    IF k = 0 THEN Got(<<>>, p)
    ELSE LET g == ReadGeom(b, p)
         IN IF ~g.ok \/ g.val.gtype # "Polygon" THEN Fail
            ELSE LET rest == ReadPolygons(b, g.pos, k - 1)
                 IN IF ~rest.ok THEN Fail
                    ELSE Got(<<g.val.parts>> \o rest.val, rest.pos)

\* one geometry at position p: the byte order is read from its first byte
ReadGeom(b, p) ==
    IF p + 4 > Len(b) THEN Fail
    ELSE LET le == b[p] # 0
             t == U32At(b, p + 1, le)
         IN CASE t = 1 ->
                  LET pts == ReadPoints(b, p + 5, 1, le)
                  IN IF ~pts.ok THEN Fail
                     ELSE Got(Point(pts.val[1][1], pts.val[1][2]), pts.pos)
              [] t = 3 ->
                  IF p + 8 > Len(b) THEN Fail
                  ELSE LET rs == ReadRings(b, p + 9, U32At(b, p + 5, le), le)
                       IN IF ~rs.ok THEN Fail
                          ELSE Got(Polygon(rs.val), rs.pos)
              [] t = 6 ->
                  IF p + 8 > Len(b) THEN Fail
                  ELSE LET ps == ReadPolygons(b, p + 9, U32At(b, p + 5, le))
                       IN IF ~ps.ok THEN Fail
                          ELSE Got(MultiPolygon(ps.val), ps.pos)
              [] OTHER -> Fail

\* the geometry of a WKB byte string, or Error (GEOS ParseException)
WkbLoadsBytes(b) ==
    LET g == ReadGeom(b, 1) IN IF g.ok THEN g.val ELSE Error

\* shapely.wkb.loads(shape, hex=True)
WkbLoads(shape) ==
    IF IsNaN(shape) \/ ~HexOK(shape.str) THEN Error
    ELSE WkbLoadsBytes(HexToBytes(shape.str))

WkbRing(ring, le) ==
    U32Bytes(Len(ring), le)
    \o Concat([i \in 1..Len(ring) |->
                  F64Bytes(ring[i][1], le) \o F64Bytes(ring[i][2], le)])

WkbPolygonBody(rings, le) ==
    <<IF le THEN 1 ELSE 0>> \o U32Bytes(3, le) \o U32Bytes(Len(rings), le)
    \o Concat([i \in 1..Len(rings) |-> WkbRing(rings[i], le)])

\* the WKB of a geometry in the given byte order
WkbDumps(g, le) ==
    CASE g.gtype = "Point" ->
           <<IF le THEN 1 ELSE 0>> \o U32Bytes(1, le)
           \o F64Bytes(g.parts[1], le) \o F64Bytes(g.parts[2], le)
      [] g.gtype = "Polygon" -> WkbPolygonBody(g.parts, le)
      [] g.gtype = "MultiPolygon" ->
           <<IF le THEN 1 ELSE 0>> \o U32Bytes(6, le)
           \o U32Bytes(Len(g.parts), le)
           \o Concat([i \in 1..Len(g.parts) |-> WkbPolygonBody(g.parts[i], le)])

(***************************************************************************)
(* The spatial predicate of the join: a point is within a polygon when it  *)
(* lies in the polygon's interior (a point on the boundary is not within). *)
(***************************************************************************)
Min(a, b) == IF a <= b THEN a ELSE b

Max(a, b) == IF a >= b THEN a ELSE b

OnSegment(q, a, b) ==
    /\ (b[1] - a[1]) * (q[2] - a[2]) = (b[2] - a[2]) * (q[1] - a[1])
    /\ Min(a[1], b[1]) <= q[1] /\ q[1] <= Max(a[1], b[1])
    /\ Min(a[2], b[2]) <= q[2] /\ q[2] <= Max(a[2], b[2])

\* the ray from q towards +x crosses the edge a-b
RayCrosses(q, a, b) ==
    LET dy == b[2] - a[2]
        lhs == q[1] * dy
        rhs == a[1] * dy + (q[2] - a[2]) * (b[1] - a[1])
    IN /\ (a[2] > q[2]) # (b[2] > q[2])
       /\ IF dy > 0 THEN lhs < rhs ELSE lhs > rhs

\* "on" the ring, "in" the area it encloses, or "out"
PointInRing(q, ring) ==
    LET edges == 1..(Len(ring) - 1)
    IN IF \E i \in edges : OnSegment(q, ring[i], ring[i + 1]) THEN "on"
       ELSE IF Cardinality({i \in edges :
                               RayCrosses(q, ring[i], ring[i + 1])}) % 2 = 1
            THEN "in"
       ELSE "out"

WithinRings(q, rings) ==
    /\ Len(rings) >= 1
    /\ PointInRing(q, rings[1]) = "in"
    /\ \A i \in 2..Len(rings) : PointInRing(q, rings[i]) = "out"

\* point geometry pt within area geometry g
Within(pt, g) ==
    CASE g.gtype = "Polygon" -> WithinRings(pt.parts, g.parts)
      [] g.gtype = "MultiPolygon" ->
           \E i \in 1..Len(g.parts) : WithinRings(pt.parts, g.parts[i])
      [] OTHER -> FALSE

(***************************************************************************)
(* Reprojection epsg:4326 -> epsg:3857 (spherical Mercator, metres): x is  *)
(* linear in the longitude, y is the Mercator ordinate of the latitude,    *)
(* tabulated for whole degrees.                                            *)
(***************************************************************************)
MercatorY == <<0, 111325, 222684, 334111, 445640, 557305, 669141, 781182,
               893463>>

ToMercator(xy) ==
    <<111319 * xy[1],
      IF xy[2] \in 0..(Len(MercatorY) - 1) THEN MercatorY[xy[2] + 1]
      ELSE 111325 * xy[2]>>

MapRing(ring) == [i \in 1..Len(ring) |-> ToMercator(ring[i])]

MapRings(rings) == [i \in 1..Len(rings) |-> MapRing(rings[i])]

\* one geometry reprojected from epsg:4326 to epsg:3857
Reproject(g) ==
    CASE g.gtype = "Point" -> [g EXCEPT !.parts = ToMercator(g.parts)]
      [] g.gtype = "Polygon" -> [g EXCEPT !.parts = MapRings(g.parts)]
      [] g.gtype = "MultiPolygon" ->
           [g EXCEPT !.parts = [i \in 1..Len(g.parts) |-> MapRings(g.parts[i])]]

(***************************************************************************)
(* Aggregates of a float64 column: pandas skips NaN (skipna=True).         *)
(***************************************************************************)
RECURSIVE InsertSorted(_, _)
InsertSorted(s, v) ==
    IF s = <<>> THEN <<v>>
    ELSE IF RatLeq(v, Head(s)) THEN <<v>> \o s
    ELSE <<Head(s)>> \o InsertSorted(Tail(s), v)

RECURSIVE SortValues(_)
SortValues(s) ==
    IF s = <<>> THEN <<>> ELSE InsertSorted(SortValues(Tail(s)), Head(s))

NotNaN(v) == ~IsNaN(v)

\* Series.median()
Median(vals) ==
    LET s == SortValues(SelectSeq(vals, NotNaN))
        n == Len(s)
    IN IF n = 0 THEN NaN
       ELSE IF n % 2 = 1 THEN s[(n + 1) \div 2]
       ELSE RatDivInt(RatAdd(s[n \div 2], s[n \div 2 + 1]), 2)

RECURSIVE SumValues(_)
SumValues(s) ==
    IF s = <<>> THEN Rat(0, 1) ELSE RatAdd(Head(s), SumValues(Tail(s)))

\* Series.mean()
Mean(vals) ==
    LET s == SelectSeq(vals, NotNaN)
    IN IF s = <<>> THEN NaN ELSE RatDivInt(SumValues(s), Len(s))

(***************************************************************************)
(* Data frames: [kind, crs, cols, rows]; a row maps each column name to    *)
(* its cell.  A file on disk is [exists, crs, cols, rows]; in a .gpkg file *)
(* a geometry cell is the blob [blob |-> WKB bytes].                       *)
(***************************************************************************)
ListingsCsv == "../data/listings.csv.gz"

NeighborhoodsCsv == "../data/neighborhoods.csv"

NeighborhoodsGpkg == "../data/neighborhoods.gpkg"

ListingsGpkg == "../data/listings.gpkg"

FileNames == {ListingsCsv, NeighborhoodsCsv, NeighborhoodsGpkg, ListingsGpkg}

WGS84 == "epsg:4326"

WebMercator == "epsg:3857"

NoFrame == [kind |-> "undefined", crs |-> None, cols |-> {}, rows |-> <<>>]

NoFile == [exists |-> FALSE, crs |-> None, cols |-> {}, rows |-> <<>>]

Column(f, c) == [i \in 1..Len(f.rows) |-> f.rows[i][c]]

AddCol(row, c, v) ==
    [k \in (DOMAIN row) \cup {c} |-> IF k = c THEN v ELSE row[k]]

DropCol(row, c) == [k \in (DOMAIN row) \ {c} |-> row[k]]

\* frame[c] = vals (positional: vals is an array, not an indexed Series)
WithColumn(f, c, vals) ==
    [f EXCEPT !.cols = @ \cup {c},
              !.rows = [i \in 1..Len(f.rows) |-> AddCol(f.rows[i], c, vals[i])]]

\* frame.drop(c, axis=1)
WithoutColumn(f, c) ==
    [f EXCEPT !.cols = @ \ {c},
              !.rows = [i \in 1..Len(f.rows) |-> DropCol(f.rows[i], c)]]

\* frame[[c1, c2, ...]]
Project(f, cs) ==
    [f EXCEPT !.cols = cs,
              !.rows = [i \in 1..Len(f.rows) |-> [k \in cs |-> f.rows[i][k]]]]

\* pandas.read_csv(path)
PandasReadCsv(file) ==
    [kind |-> "DataFrame", crs |-> None, cols |-> file.cols, rows |-> file.rows]

IsNumber(v) == "num" \in DOMAIN v

CoordOK(v) == IsNumber(v) /\ ~IsNaN(v)

\* points built with the latitude first
PointsFromXY_LatFirst(xs, ys) ==
    IF \E i \in 1..Len(xs) : ~CoordOK(xs[i]) \/ ~CoordOK(ys[i]) THEN Error
    ELSE [pts |-> [i \in 1..Len(xs) |-> Point(ys[i].num, xs[i].num)]]

\* gpd.points_from_xy(x, y): one point per position, x first
PointsFromXY(xs, ys) ==
    IF \E i \in 1..Len(xs) : ~CoordOK(xs[i]) \/ ~CoordOK(ys[i]) THEN Error
    ELSE [pts |-> [i \in 1..Len(xs) |-> Point(xs[i].num, ys[i].num)]]

\* gpd.GeoDataFrame(frame, geometry=geoms)
GeoDataFrameWith(f, geoms) ==
    [WithColumn(f, "geometry", geoms) EXCEPT !.kind = "GeoDataFrame"]

\* frame.to_crs(epsg=3857)
ToCrs(f, target) ==
    IF f.crs = target THEN f
    ELSE [f EXCEPT !.crs = target,
                   !.rows = [i \in 1..Len(f.rows) |->
                               [f.rows[i] EXCEPT !.geometry = Reproject(@)]]]

\* frame.to_file(path, driver='GPKG'): geometries are stored as little-endian
\* WKB blobs, the other columns as they are
GpkgContent(f) ==
    [exists |-> TRUE, crs |-> f.crs, cols |-> f.cols,
     rows |-> [i \in 1..Len(f.rows) |->
                 [f.rows[i] EXCEPT !.geometry = [blob |-> WkbDumps(@, TRUE)]]]]

\* gpd.read_file(path)
GpdReadFile(file) ==
    [kind |-> "GeoDataFrame", crs |-> file.crs, cols |-> file.cols,
     rows |-> [i \in 1..Len(file.rows) |->
                 [file.rows[i] EXCEPT !.geometry = WkbLoadsBytes(@.blob)]]]

\* gpd.sjoin(left, right, op='within'): the pairs <<i, j>> of a left row i
\* and a right row j with left geometry within right geometry (inner join)
Sjoin(left, right) ==
    {ij \in (1..Len(left.rows)) \X (1..Len(right.rows)) :
        Within(left.rows[ij[1]].geometry, right.rows[ij[2]].geometry)}

SetToSeq(S) ==
    LET n == Cardinality(S)
    IN [i \in 1..n |-> CHOOSE x \in S : Cardinality({y \in S : y < x}) = i - 1]

\* .groupby('index_right').price.median(): one entry per right row that has
\* a joined left row, in increasing order of index_right
GroupMedian(left, pairs) ==
    LET keys == SetToSeq({ij[2] : ij \in pairs})
        members(j) == SetToSeq({ij[1] : ij \in {q \in pairs : q[2] = j}})
        prices(j) == [k \in 1..Len(members(j)) |->
                         left.rows[members(j)[k]].price]
    IN [k \in 1..Len(keys) |->
           [index_right |-> keys[k], price |-> Median(prices(keys[k]))]]

\* Series.values
Values(series) == [k \in 1..Len(series) |-> series[k].price]

\* Series.fillna(value)
FillNa(vals, value) ==
    [i \in 1..Len(vals) |-> IF IsNaN(vals[i]) THEN value ELSE vals[i]]

(***************************************************************************)
(* The two input files of a run.                                           *)
(***************************************************************************)
ListingCols == {"id", "longitude", "latitude", "price"}

HoodCols == {"hood_id", "wkb"}

Rect(x1, y1, x2, y2) ==
    <<<<x1, y1>>, <<x2, y1>>, <<x2, y2>>, <<x1, y2>>, <<x1, y1>>>>

Hex(g, le) == Str(BytesToHex(WkbDumps(g, le)))

HoodA == Polygon(<<Rect(0, 0, 2, 2)>>)

HoodB == MultiPolygon(<<<<Rect(2, 0, 4, 2)>>>>)

HoodC == Polygon(<<Rect(0, 2, 2, 4)>>)

Truncated(h) == Str(SubSeq(h.str, 1, Len(h.str) \div 2 - 1))

Lowered(h) ==
    Str([i \in 1..Len(h.str) |-> LowerHex[HexVal(h.str[i]) + 1]])

\* a WKB whose geometry type is no OGC type
UnknownType == Str(BytesToHex(<<1>> \o U32Bytes(99, TRUE) \o U32Bytes(0, TRUE)))

NotHex == Str(<<"G", "1">>)

Price100 == Str(<<"$", "1", "0", "0", ".", "0", "0">>)

Price200 == Str(<<"$", "2", "0", "0", ".", "0", "0">>)

NotAPrice == Str(<<"N", "/", "A">>)

NotACoordinate == Str(<<"x">>)

Listing(lon, lat, price) ==
    [longitude |-> lon, latitude |-> lat, price |-> price]

\* listings inside HoodA, inside HoodB and on their common boundary, one
\* without a price, one with a text that is no price, one with a longitude
\* that is no number
ListingChoices ==
    <<Listing(Rat(1, 1), Rat(1, 1), Price100),
      Listing(Rat(1, 1), Rat(1, 1), Price200),
      Listing(Rat(3, 1), Rat(1, 1), Price100),
      Listing(Rat(2, 1), Rat(1, 1), Price200),
      Listing(Rat(1, 1), Rat(1, 1), NaN),
      Listing(Rat(1, 1), Rat(1, 1), NotAPrice),
      Listing(NotACoordinate, Rat(1, 1), Price100)>>

HoodChoices == {Hex(HoodA, FALSE), Hex(HoodB, TRUE), Hex(HoodC, TRUE)}

SeqsUpTo(S, n) == UNION {[1..k -> S] : k \in 1..n}

\* the rows of a file up to their order: one sequence per multiset of at
\* most n choices
RowsUpTo(choices, n) ==
    {[i \in 1..Len(ix) |-> choices[ix[i]]] :
        ix \in {q \in SeqsUpTo(1..Len(choices), n) :
                   \A i \in 1..(Len(q) - 1) : q[i] <= q[i + 1]}}

DistinctSeqsUpTo(S, n) ==
    {q \in SeqsUpTo(S, n) : \A i, j \in 1..Len(q) : i # j => q[i] # q[j]}

ListingRows(ls) == [i \in 1..Len(ls) |-> AddCol(ls[i], "id", Rat(i, 1))]

HoodRows(hs) ==
    [j \in 1..Len(hs) |-> [hood_id |-> Rat(j, 1), wkb |-> hs[j]]]

\* price texts: '$', one to three digits, ",ddd" groups, optional decimals
PriceDigits == {"0", "7"}

FirstGroups == {<<"0">>, <<"7">>, <<"7", "0">>, <<"7", "0", "7">>}

ThousandGroups == {<<",", "0", "0", "0">>, <<",", "0", "7", "5">>}

GroupTails == {<<>>} \cup {Concat(g) : g \in SeqsUpTo(ThousandGroups, MaxGroups)}

FracParts == {<<>>} \cup {<<".">> \o d : d \in SeqsUpTo(PriceDigits, MaxFracLen)}

\* (at most nine digits, so that the value times its power of ten stays
\* below 2^31)
PriceTexts ==
    {v \in {Str(<<"$">> \o f \o g \o d) :
               f \in FirstGroups, g \in GroupTails, d \in FracParts} :
        NumDigits(v.str) <= 9}

\* neighbourhood shapes: every rectangle on the grid, as a polygon or a
\* one-part multipolygon, in either byte order
GridRects ==
    {Rect(x1, y1, x2, y2) : x1 \in 0..MaxCoord, y1 \in 0..MaxCoord,
                            x2 \in 0..MaxCoord, y2 \in 0..MaxCoord}

ProperRects == {r \in GridRects : r[1][1] < r[3][1] /\ r[1][2] < r[3][2]}

ShapeTexts ==
    {Hex(Polygon(<<r>>), le) : r \in ProperRects, le \in BOOLEAN}
    \cup {Hex(MultiPolygon(<<<<r>>>>), le) : r \in ProperRects, le \in BOOLEAN}
    \cup {UnknownType, NotHex, Truncated(Hex(HoodA, TRUE)),
          Lowered(Hex(HoodA, TRUE))}

\* the runs modelled: <<listing rows, neighbourhood rows>>
Inputs ==
    {<<ListingRows(ls), HoodRows(hs)>> :
        ls \in RowsUpTo(ListingChoices, MaxListings),
        hs \in DistinctSeqsUpTo(HoodChoices, MaxHoods)}
    \cup {<<ListingRows(<<Listing(Rat(1, 1), Rat(1, 1), pr)>>),
            HoodRows(<<Hex(HoodA, TRUE)>>)>> : pr \in PriceTexts}
    \cup {<<ListingRows(<<Listing(Rat(1, 1), Rat(2, 1), Price100)>>),
            HoodRows(<<h>>)>> : h \in ShapeTexts}

InputFiles(in) ==
    [f \in FileNames |->
        IF f = ListingsCsv
        THEN [exists |-> TRUE, crs |-> None, cols |-> ListingCols, rows |-> in[1]]
        ELSE IF f = NeighborhoodsCsv
        THEN [exists |-> TRUE, crs |-> None, cols |-> HoodCols, rows |-> in[2]]
        ELSE NoFile]

(***************************************************************************)
(* The run.                                                                *)
(***************************************************************************)
Init ==
    /\ pc = "read_csv"
    /\ files \in {InputFiles(in) : in \in Inputs}
    /\ listings = NoFrame
    /\ geometries = <<>>
    /\ neighborhoods = NoFrame
    /\ df = NoFrame
    /\ median_price = <<>>
    /\ figures = <<>>
    /\ failedAt = None
    /\ writes = [f \in FileNames |-> 0]
    /\ reads = [f \in FileNames |-> 0]

\* listings = pandas.read_csv(...); neighborhoods = pandas.read_csv(...)
ReadCsv ==
    /\ pc = "read_csv"
    /\ listings' = PandasReadCsv(files[ListingsCsv])
    /\ neighborhoods' = PandasReadCsv(files[NeighborhoodsCsv])
    /\ reads' = [reads EXCEPT ![ListingsCsv] = @ + 1,
                              ![NeighborhoodsCsv] = @ + 1]
    /\ pc' = "points_from_xy"
    /\ UNCHANGED <<files, geometries, df, median_price, figures, failedAt,
                   writes>>

\* geometries = gpd.points_from_xy(listings.longitude, listings.latitude)
MakePoints ==
    /\ pc = "points_from_xy"
    /\ LET r == PointsFromXY(Column(listings, "longitude"),
                             Column(listings, "latitude"))
       IN IF r = Error
          THEN /\ pc' = "aborted"
               /\ failedAt' = "points_from_xy"
               /\ UNCHANGED geometries
          ELSE /\ pc' = "geodataframe"
               /\ geometries' = r.pts
               /\ UNCHANGED failedAt
    /\ UNCHANGED <<files, listings, neighborhoods, df, median_price, figures,
                   writes, reads>>

\* listings = gpd.GeoDataFrame(listings, geometry=geometries)
MakeGeoDataFrame ==
    /\ pc = "geodataframe"
    /\ listings' = GeoDataFrameWith(listings, geometries)
    /\ pc' = "wkb_loads"
    /\ UNCHANGED <<files, geometries, neighborhoods, df, median_price, figures,
                   failedAt, writes, reads>>

\* a decoding step that drops the rows it cannot decode and goes on
DecodeShapes_SkipUndecodable ==
    /\ pc = "wkb_loads"
    /\ LET ok(row) == WkbLoads(row.wkb) # Error
           kept == SelectSeq(neighborhoods.rows, ok)
       IN neighborhoods' =
              [neighborhoods EXCEPT
                  !.cols = @ \cup {"geometry"},
                  !.rows = [j \in 1..Len(kept) |->
                              AddCol(kept[j], "geometry", WkbLoads(kept[j].wkb))]]
    /\ pc' = "drop_wkb"
    /\ UNCHANGED <<files, listings, geometries, df, median_price, figures,
                   failedAt, writes, reads>>

\* neighborhoods['geometry'] = neighborhoods.wkb.apply(
\*     lambda shape: wkb.loads(shape, hex=True))
DecodeShapes ==
    /\ pc = "wkb_loads"
    /\ LET shapes == Column(neighborhoods, "wkb")
           geoms == [j \in 1..Len(shapes) |-> WkbLoads(shapes[j])]
       IN IF \E j \in 1..Len(shapes) : geoms[j] = Error
          THEN /\ pc' = "aborted"
               /\ failedAt' = "wkb_loads"
               /\ UNCHANGED neighborhoods
          ELSE /\ pc' = "drop_wkb"
               /\ neighborhoods' = WithColumn(neighborhoods, "geometry", geoms)
               /\ UNCHANGED failedAt
    /\ UNCHANGED <<files, listings, geometries, df, median_price, figures,
                   writes, reads>>

\* the wkb column is kept
DropWkb_KeepColumn ==
    /\ pc = "drop_wkb"
    /\ neighborhoods' = [neighborhoods EXCEPT !.kind = "GeoDataFrame"]
    /\ pc' = "set_crs"
    /\ UNCHANGED <<files, listings, geometries, df, median_price, figures,
                   failedAt, writes, reads>>

\* neighborhoods = gpd.GeoDataFrame(neighborhoods)
\* neighborhoods.drop('wkb', axis=1, inplace=True)
DropWkb ==
    /\ pc = "drop_wkb"
    /\ neighborhoods' =
           WithoutColumn([neighborhoods EXCEPT !.kind = "GeoDataFrame"], "wkb")
    /\ pc' = "set_crs"
    /\ UNCHANGED <<files, listings, geometries, df, median_price, figures,
                   failedAt, writes, reads>>

\* listings.crs = {'init': 'epsg:4326'}; neighborhoods.crs = {'init': 'epsg:4326'}
SetCrs ==
    /\ pc = "set_crs"
    /\ listings' = [listings EXCEPT !.crs = WGS84]
    /\ neighborhoods' = [neighborhoods EXCEPT !.crs = WGS84]
    /\ pc' = "to_file"
    /\ UNCHANGED <<files, geometries, df, median_price, figures, failedAt,
                   writes, reads>>

\* the files are written and reloaded at once, before any reprojection
ToFile_ThenReload ==
    /\ pc = "to_file"
    /\ files' = [files EXCEPT ![NeighborhoodsGpkg] = GpkgContent(neighborhoods),
                              ![ListingsGpkg] = GpkgContent(listings)]
    /\ writes' = [writes EXCEPT ![NeighborhoodsGpkg] = @ + 1,
                                ![ListingsGpkg] = @ + 1]
    /\ pc' = "read_file"
    /\ UNCHANGED <<listings, geometries, neighborhoods, df, median_price,
                   figures, failedAt, reads>>

\* neighborhoods.to_file('../data/neighborhoods.gpkg', driver='GPKG')
\* listings.to_file('../data/listings.gpkg', driver='GPKG')
ToFile ==
    /\ pc = "to_file"
    /\ files' = [files EXCEPT ![NeighborhoodsGpkg] = GpkgContent(neighborhoods),
                              ![ListingsGpkg] = GpkgContent(listings)]
    /\ writes' = [writes EXCEPT ![NeighborhoodsGpkg] = @ + 1,
                                ![ListingsGpkg] = @ + 1]
    /\ pc' = "to_crs"
    /\ UNCHANGED <<listings, geometries, neighborhoods, df, median_price,
                   figures, failedAt, reads>>

\* listings = listings.to_crs(epsg=3857)
\* neighborhoods = neighborhoods.to_crs(epsg=3857)
Reprojection ==
    /\ pc = "to_crs"
    /\ listings' = ToCrs(listings, WebMercator)
    /\ neighborhoods' = ToCrs(neighborhoods, WebMercator)
    /\ pc' = "plot_map"
    /\ UNCHANGED <<files, geometries, df, median_price, figures, failedAt,
                   writes, reads>>

Figure(kind, a, b, vals) ==
    [kind |-> kind, crs |-> <<a, b>>, values |-> vals]

\* neighborhoods.boundary.plot(...); listings.plot(...)
PlotMap ==
    /\ pc = "plot_map"
    /\ figures' = Append(figures,
                         Figure("map", neighborhoods.crs, listings.crs, <<>>))
    /\ pc' = "read_file"
    /\ UNCHANGED <<files, listings, geometries, neighborhoods, df,
                   median_price, failedAt, writes, reads>>

\* only the neighbourhoods are reloaded; listings stays the in-memory frame
ReadFile_KeepListings ==
    /\ pc = "read_file"
    /\ df' = GpdReadFile(files[NeighborhoodsGpkg])
    /\ reads' = [reads EXCEPT ![NeighborhoodsGpkg] = @ + 1,
                              ![ListingsGpkg] = @ + 1]
    /\ pc' = "clean_price"
    /\ UNCHANGED <<files, listings, geometries, neighborhoods, median_price,
                   figures, failedAt, writes>>

\* df = gpd.read_file('../data/neighborhoods.gpkg')
\* listings = gpd.read_file('../data/listings.gpkg')
ReadFile ==
    /\ pc = "read_file"
    /\ df' = GpdReadFile(files[NeighborhoodsGpkg])
    /\ listings' = GpdReadFile(files[ListingsGpkg])
    /\ reads' = [reads EXCEPT ![NeighborhoodsGpkg] = @ + 1,
                              ![ListingsGpkg] = @ + 1]
    /\ pc' = "clean_price"
    /\ UNCHANGED <<files, geometries, neighborhoods, median_price, figures,
                   failedAt, writes>>

\* the cleaned listings are saved back to listings.gpkg
CleanPriceColumn_Saving ==
    /\ pc = "clean_price"
    /\ LET old == Column(listings, "price")
           new == [i \in 1..Len(old) |-> CleanPrice(old[i])]
       IN IF \E i \in 1..Len(old) : new[i] = Error
          THEN /\ pc' = "aborted"
               /\ failedAt' = "clean_price"
               /\ UNCHANGED <<listings, files>>
          ELSE /\ pc' = "sjoin"
               /\ listings' = WithColumn(listings, "price", new)
               /\ files' = [files EXCEPT ![ListingsGpkg] = GpkgContent(listings')]
               /\ UNCHANGED failedAt
    /\ UNCHANGED <<geometries, neighborhoods, df, median_price, figures,
                   writes, reads>>

\* listings['price'] = listings.price.str.replace('$', '')
\*                         .str.replace(',', '_').astype(float)
CleanPriceColumn ==
    /\ pc = "clean_price"
    /\ LET old == Column(listings, "price")
           new == [i \in 1..Len(old) |-> CleanPrice(old[i])]
       IN IF \E i \in 1..Len(old) : new[i] = Error
          THEN /\ pc' = "aborted"
               /\ failedAt' = "clean_price"
               /\ UNCHANGED listings
          ELSE /\ pc' = "sjoin"
               /\ listings' = WithColumn(listings, "price", new)
               /\ UNCHANGED failedAt
    /\ UNCHANGED <<files, geometries, neighborhoods, df, median_price, figures,
                   writes, reads>>

\* median_price = gpd.sjoin(listings[['price', 'geometry']], df, op='within')
\*                   .groupby('index_right').price.median()
SjoinMedian ==
    /\ pc = "sjoin"
    /\ LET left == Project(listings, {"price", "geometry"})
       IN median_price' = GroupMedian(left, Sjoin(left, df))
    /\ pc' = "assign_median"
    /\ UNCHANGED <<files, listings, geometries, neighborhoods, df, figures,
                   failedAt, writes, reads>>

\* df['median_pri'] = median_price.values
\* (ValueError when the array is not as long as df's index)
AssignMedianPri ==
    /\ pc = "assign_median"
    /\ IF Len(Values(median_price)) # Len(df.rows)
       THEN /\ pc' = "aborted"
            /\ failedAt' = "assign_median"
            /\ UNCHANGED df
       ELSE /\ pc' = "fillna"
            /\ df' = WithColumn(df, "median_pri", Values(median_price))
            /\ UNCHANGED failedAt
    /\ UNCHANGED <<files, listings, geometries, neighborhoods, median_price,
                   figures, writes, reads>>

\* df['median_pri'].fillna((df['median_pri'].mean()), inplace=True)
FillMedianPri ==
    /\ pc = "fillna"
    /\ LET col == Column(df, "median_pri")
       IN df' = WithColumn(df, "median_pri", FillNa(col, Mean(col)))
    /\ pc' = "distplot"
    /\ UNCHANGED <<files, listings, geometries, neighborhoods, median_price,
                   figures, failedAt, writes, reads>>

\* sbn.distplot(df['median_pri'])
DistPlot ==
    /\ pc = "distplot"
    /\ figures' = Append(figures,
                         Figure("distplot", None, None, Column(df, "median_pri")))
    /\ pc' = "choropleth"
    /\ UNCHANGED <<files, listings, geometries, neighborhoods, df,
                   median_price, failedAt, writes, reads>>

\* df.plot(column='median_pri', scheme='Quantiles', legend=True, ax=ax)
Choropleth ==
    /\ pc = "choropleth"
    /\ figures' = Append(figures,
                         Figure("choropleth", df.crs, None,
                                Column(df, "median_pri")))
    /\ pc' = "done"
    /\ UNCHANGED <<files, listings, geometries, neighborhoods, df,
                   median_price, failedAt, writes, reads>>

Next ==
    \/ ReadCsv
    \/ MakePoints
    \/ MakeGeoDataFrame
    \/ DecodeShapes
    \/ DropWkb
    \/ SetCrs
    \/ ToFile
    \/ Reprojection
    \/ PlotMap
    \/ ReadFile
    \/ CleanPriceColumn
    \/ SjoinMedian
    \/ AssignMedianPri
    \/ FillMedianPri
    \/ DistPlot
    \/ Choropleth

Spec == Init /\ [][Next]_vars

(***************************************************************************)
(* Vocabulary of the properties.                                           *)
(***************************************************************************)
\* the code cells' statements in notebook order
Stages == <<"read_csv", "points_from_xy", "geodataframe", "wkb_loads",
            "drop_wkb", "set_crs", "to_file", "to_crs", "plot_map",
            "read_file", "clean_price", "sjoin", "assign_median", "fillna",
            "distplot", "choropleth", "done">>

StageIndex(st) == CHOOSE k \in 1..Len(Stages) : Stages[k] = st

\* the statement the run stands at (the failing one after an abort)
Position == IF pc = "aborted" THEN failedAt ELSE pc

\* statement st has run to its end
Completed(st) == StageIndex(Position) > StageIndex(st)

InListings == files[ListingsCsv].rows

InHoods == files[NeighborhoodsCsv].rows

InPoint(i) == Point(InListings[i].longitude.num, InListings[i].latitude.num)

BadCoordinate ==
    \E i \in 1..Len(InListings) :
        ~CoordOK(InListings[i].longitude) \/ ~CoordOK(InListings[i].latitude)

BadShape == \E j \in 1..Len(InHoods) : WkbLoads(InHoods[j].wkb) = Error

BadPrice == \E i \in 1..Len(InListings) : CleanPrice(InListings[i].price) = Error

\* the listings of the input whose point lies within neighbourhood j's shape
ListingsWithin(j) ==
    LET g == WkbLoads(InHoods[j].wkb)
    IN {i \in 1..Len(InListings) : Within(InPoint(i), g)}

WellFormedInput == ~BadCoordinate /\ ~BadShape /\ ~BadPrice

EmptyHoods ==
    IF WellFormedInput
    THEN {j \in 1..Len(InHoods) : ListingsWithin(j) = {}}
    ELSE {}

\* the median of the input prices of the listings within neighbourhood j
ExpectedMedian(j) ==
    LET members == SetToSeq(ListingsWithin(j))
    IN Median([k \in 1..Len(members) |-> CleanPrice(InListings[members[k]].price)])

MedianPri(j) == df.rows[j].median_pri

(***************************************************************************)
(* C1.  After the join and the aggregation every neighbourhood row's       *)
(* median_pri is the median price of exactly the listings within its       *)
(* polygon, for every assignment of listings to neighbourhoods: once the   *)
(* statement df['median_pri'] = median_price.values has been run, the      *)
(* column exists and holds that median in every row.                       *)
(***************************************************************************)
C1_MedianOfListingsWithin ==
    (pc = "fillna" \/ (pc = "aborted" /\ failedAt = "assign_median"))
       => /\ "median_pri" \in df.cols
          /\ \A j \in 1..Len(df.rows) : MedianPri(j) = ExpectedMedian(j)

(***************************************************************************)
(* C2.  A neighbourhood without listings gets a fallback value: when some  *)
(* neighbourhood contains no listing, the run still gets past the          *)
(* aggregation, and at the choropleth every row has a median_pri that is   *)
(* a number.                                                               *)
(***************************************************************************)
C2_EmptyNeighbourhoodFilled ==
    /\ failedAt = "assign_median" => EmptyHoods = {}
    /\ (Completed("distplot") /\ EmptyHoods # {})
          => \A j \in 1..Len(df.rows) : ~IsNaN(MedianPri(j))

(***************************************************************************)
(* C3.  When gpd.sjoin is about to run, its two operands (listings and df) *)
(* carry the same coordinate reference system, epsg:4326 as reloaded from  *)
(* the .gpkg files, although the in-memory collections were reprojected.   *)
(***************************************************************************)
C3_SameCrsAtJoin ==
    pc = "sjoin" => listings.crs = df.crs /\ df.crs = WGS84

C3_Witness ==
    /\ pc = "sjoin"
    /\ neighborhoods.crs = WebMercator
    /\ listings.crs = WGS84

(***************************************************************************)
(* C4.  Row i's point geometry is built from row i's coordinates,          *)
(* longitude first: x = longitude and y = latitude, in the array returned  *)
(* by points_from_xy and in the geometry column of listings (as long as    *)
(* the column is in the coordinate system of the source record).           *)
(***************************************************************************)
C4_PointIsLonLat ==
    /\ \A i \in 1..Len(geometries) :
          geometries[i].parts = <<InListings[i].longitude.num,
                                  InListings[i].latitude.num>>
    /\ ("geometry" \in listings.cols /\ listings.crs # WebMercator)
          => \A i \in 1..Len(listings.rows) :
                listings.rows[i].geometry =
                    Point(listings.rows[i].longitude.num,
                          listings.rows[i].latitude.num)

C4_Witness ==
    /\ pc = "wkb_loads"
    /\ \E i \in 1..Len(listings.rows) :
          /\ listings.rows[i].longitude # listings.rows[i].latitude
          /\ listings.rows[i].geometry.parts[1] = listings.rows[i].longitude.num

(***************************************************************************)
(* What a state shows of the stages that have run.                         *)
(***************************************************************************)
WasRead == reads[ListingsCsv] >= 1 /\ reads[NeighborhoodsCsv] >= 1

HasGeometry == "geometry" \in listings.cols /\ "geometry" \in neighborhoods.cols

HasCrs == listings.crs # None /\ neighborhoods.crs # None

Persisted == files[NeighborhoodsGpkg].exists /\ files[ListingsGpkg].exists

Reprojected == neighborhoods.crs = WebMercator

Reloaded == reads[NeighborhoodsGpkg] >= 1 /\ reads[ListingsGpkg] >= 1

Joined == Completed("sjoin")

Aggregated == "median_pri" \in df.cols

Rendered == \E k \in 1..Len(figures) : figures[k].kind = "choropleth"

(***************************************************************************)
(* C5 as stated.  The stages run in the order read, derive geometry,       *)
(* attach a CRS, persist, reload, reproject, join, aggregate, render: the  *)
(* collections are reprojected only after they have been reloaded, and the *)
(* operands of the join are the reprojected (epsg:3857) collections.       *)
(***************************************************************************)
C5_ReloadThenReproject ==
    /\ Reprojected => Reloaded
    /\ pc = "sjoin" => listings.crs = WebMercator /\ df.crs = WebMercator

(***************************************************************************)
(* C5 as amended.  The stages run in the order read, derive geometry,      *)
(* attach a CRS, persist, reproject (in memory, for the first map),        *)
(* reload, join, aggregate, render: no stage has run unless the one before *)
(* it has, the reprojection precedes the reload, and the operands of the   *)
(* join are the reloaded epsg:4326 collections, not the reprojected ones.  *)
(***************************************************************************)
C5_ReprojectThenReload ==
    /\ Rendered => Aggregated
    /\ Aggregated => Joined
    /\ Joined => Reloaded
    /\ Reloaded => Reprojected
    /\ Reprojected => Persisted
    /\ Persisted => HasCrs
    /\ HasCrs => HasGeometry
    /\ HasGeometry => WasRead
    /\ pc = "sjoin"
          => /\ listings.crs = WGS84 /\ df.crs = WGS84
             /\ neighborhoods.crs = WebMercator
             /\ \A i \in 1..Len(listings.rows) :
                   listings.rows[i].geometry = InPoint(i)

C5_Witness == pc = "done" /\ Rendered /\ Reloaded /\ Reprojected

(***************************************************************************)
(* C6 as stated.  Once a collection has been persisted no later step       *)
(* changes it: from then on the listings collection and the neighbourhoods *)
(* collection (in memory, and as reloaded into df) stay as they are.       *)
(***************************************************************************)
C6_ImmutableAfterPersist ==
    [][Persisted => /\ listings' = listings
                    /\ neighborhoods' = neighborhoods
                    /\ (df.kind # "undefined" => df' = df)]_vars

(***************************************************************************)
(* C6 as amended.  Each CSV source is read exactly once per run.  After    *)
(* the collections have been persisted the files on disk never change and  *)
(* no column is removed, but the collections do change: the reprojection   *)
(* rewrites geometry and crs, the price cleaning rewrites listings.price,  *)
(* and the aggregation adds (and fills) median_pri in df.  Every other     *)
(* column keeps its values.                                                *)
(***************************************************************************)
SameCells(f, g, cs) ==
    /\ Len(f.rows) = Len(g.rows)
    /\ \A i \in 1..Len(f.rows) : \A c \in cs : f.rows[i][c] = g.rows[i][c]

C6_ChangesAfterPersist ==
    [][/\ reads'[ListingsCsv] <= 1 /\ reads'[NeighborhoodsCsv] <= 1
       /\ Completed("read_csv")
             => reads[ListingsCsv] = 1 /\ reads[NeighborhoodsCsv] = 1
       /\ Persisted
             => /\ files' = files
                /\ listings'.cols = listings.cols
                /\ neighborhoods'.cols = neighborhoods.cols
                /\ SameCells(listings, listings',
                             listings.cols \ {"geometry", "price"})
                /\ SameCells(neighborhoods, neighborhoods',
                             neighborhoods.cols \ {"geometry"})
                /\ df.kind # "undefined"
                      => /\ df.cols \subseteq df'.cols
                         /\ df'.cols \ df.cols \subseteq {"median_pri"}
                         /\ df'.crs = df.crs
                         /\ SameCells(df, df', df.cols \ {"median_pri"})]_vars

C6_Witness ==
    /\ pc = "done"
    /\ Persisted
    /\ "median_pri" \in df.cols
    /\ "median_pri" \notin files[NeighborhoodsGpkg].cols
    /\ \E i \in 1..Len(listings.rows) :
          listings.rows[i].price # files[ListingsGpkg].rows[i].price

(***************************************************************************)
(* C7.  No recovery, retry or validation: a stage that fails aborts the    *)
(* run at that stage.  A run whose input makes a stage fail (a malformed   *)
(* coordinate, an undecodable shape, a price text float() rejects, an      *)
(* aggregate shorter than df) never completes that stage; an aborted run   *)
(* stands at the failing stage with none of the later stages' effects; and *)
(* no file is read or written a second time.                               *)
(***************************************************************************)
LengthMismatch == WellFormedInput /\ EmptyHoods # {}

NoEffectsAfter(st) ==
    /\ StageIndex(st) <= StageIndex("geodataframe") => listings.kind = "DataFrame"
    /\ StageIndex(st) <= StageIndex("wkb_loads")
          => "geometry" \notin neighborhoods.cols
    /\ StageIndex(st) <= StageIndex("to_file") => ~Persisted
    /\ StageIndex(st) <= StageIndex("plot_map") => figures = <<>>
    /\ StageIndex(st) <= StageIndex("read_file") => df = NoFrame
    /\ StageIndex(st) <= StageIndex("clean_price")
          => \A i \in 1..Len(listings.rows) : ~IsNumber(listings.rows[i].price)
                                             \/ IsNaN(listings.rows[i].price)
    /\ StageIndex(st) <= StageIndex("sjoin") => median_price = <<>>
    /\ StageIndex(st) <= StageIndex("assign_median") => ~Aggregated
    /\ StageIndex(st) <= StageIndex("choropleth") => ~Rendered

C7_FailureAborts ==
    /\ Completed("points_from_xy") => ~BadCoordinate
    /\ Completed("wkb_loads") => ~BadShape
    /\ Completed("clean_price") => ~BadPrice
    /\ Completed("assign_median") => ~LengthMismatch
    /\ (pc = "aborted") = (failedAt # None)
    /\ pc = "aborted" => NoEffectsAfter(failedAt)
    /\ \A f \in FileNames : reads[f] <= 1 /\ writes[f] <= 1

C7_Witness ==
    /\ pc = "aborted"
    /\ failedAt = "wkb_loads"
    /\ listings.kind = "GeoDataFrame"
    /\ ~Persisted

(***************************************************************************)
(* C8.  Decoding a neighbourhood's hex well-known binary and re-encoding   *)
(* the result gives the same geometry again: for every shape text of the   *)
(* input that decodes, decode(encode(decode(text))) = decode(text) in      *)
(* either byte order, and the geometry df holds after the round trip       *)
(* through neighborhoods.gpkg is the geometry first decoded.  (Stated of   *)
(* the run's input before its first statement, and of df as reloaded.)     *)
(***************************************************************************)
C8_WkbRoundTrip ==
    (pc = "read_csv" \/ pc = "clean_price")
       => \A j \in 1..Len(InHoods) :
             LET g == WkbLoads(InHoods[j].wkb)
             IN g # Error
                  => /\ WkbLoadsBytes(WkbDumps(g, TRUE)) = g
                     /\ WkbLoadsBytes(WkbDumps(g, FALSE)) = g
                     /\ Reloaded => df.rows[j].geometry = g

\* a big-endian shape text has been decoded, written little-endian and
\* read back
C8_Witness ==
    /\ Reloaded
    /\ \E j \in 1..Len(InHoods) :
          /\ HexToBytes(InHoods[j].wkb.str)[1] = 0
          /\ BytesToHex(files[NeighborhoodsGpkg].rows[j].geometry.blob)
                # InHoods[j].wkb.str
          /\ df.rows[j].geometry.gtype = "MultiPolygon"

(***************************************************************************)
(* C9.  The price cleaning turns a currency-formatted text into the number *)
(* written: for every input price of the form '$', digits in groups        *)
(* separated by ',', and an optional decimal part, the cleaned value is    *)
(* the number the digits spell, the step does not fail on it, and once the *)
(* step has run listings.price holds that number.                          *)
(***************************************************************************)
AllDigits(t) == \A k \in 1..Len(t) : IsDigit(t[k])

\* digits with ',' before every group of three from the right
GroupedDigits(t) ==
    /\ Len(t) >= 1
    /\ \A k \in 1..Len(t) :
          IF (Len(t) - k) % 4 = 3 THEN t[k] = "," /\ k > 1 ELSE IsDigit(t[k])

CurrencyText(v) ==
    /\ ~IsNaN(v)
    /\ Len(v.str) >= 2
    /\ v.str[1] = "$"
    /\ LET body == Tail(v.str)
           dots == {k \in 1..Len(body) : body[k] = "."}
       IN \/ dots = {} /\ GroupedDigits(body)
          \/ \E k \in dots :
                /\ dots = {k}
                /\ GroupedDigits(SubSeq(body, 1, k - 1))
                /\ k < Len(body)
                /\ AllDigits(SubSeq(body, k + 1, Len(body)))

\* the number a currency text spells: each digit times its power of ten
WrittenNumber(v) ==
    LET t == v.str
        dots == {k \in 1..Len(t) : t[k] = "."}
        dot == IF dots = {} THEN Len(t) + 1 ELSE CHOOSE k \in dots : TRUE
        intPos == {k \in 1..(dot - 1) : IsDigit(t[k])}
        rank(k) == Cardinality({m \in intPos : m > k})
        fracLen == IF dots = {} THEN 0 ELSE Len(t) - dot
        RECURSIVE Sum(_)
        Sum(ks) ==
            IF ks = {} THEN 0
            ELSE LET k == CHOOSE x \in ks : TRUE
                 IN (IF k < dot
                     THEN DigitVal(t[k]) * Pow(10, rank(k) + fracLen)
                     ELSE DigitVal(t[k]) * Pow(10, Len(t) - k))
                    + Sum(ks \ {k})
    IN Rat(Sum(intPos \cup (dot + 1)..Len(t)), Pow(10, fracLen))

C9_PriceIsNumberWritten ==
    /\ \A i \in 1..Len(InListings) :
          CurrencyText(InListings[i].price)
             => /\ CleanPrice(InListings[i].price)
                      = WrittenNumber(InListings[i].price)
                /\ Completed("clean_price")
                      => listings.rows[i].price
                             = WrittenNumber(InListings[i].price)
    /\ failedAt = "clean_price"
          => \E i \in 1..Len(InListings) :
                ~CurrencyText(InListings[i].price)

C9_Witness ==
    /\ pc = "sjoin"
    /\ \E i \in 1..Len(InListings) :
          /\ CurrencyText(InListings[i].price)
          /\ \E k \in 1..Len(InListings[i].price.str) :
                InListings[i].price.str[k] = ","
          /\ \E k \in 1..Len(InListings[i].price.str) :
                InListings[i].price.str[k] = "."
          /\ listings.rows[i].price = Rat(7075, 1)

(***************************************************************************)
(* C10.  Exactly two files are written, neighborhoods.gpkg and             *)
(* listings.gpkg, each once, after the epsg:4326 assignment and before the *)
(* reprojection, the price cleaning and the aggregation.  So the files and *)
(* the collections reloaded from them are in epsg:4326, the reloaded       *)
(* listings carry the uncleaned price text, the neighbourhoods file has    *)
(* neither a wkb nor a median_pri column, and the reprojected collections  *)
(* are drawn in the first map only and never reach the join.               *)
(***************************************************************************)
C10_FilesWrittenOnceBeforeReprojection ==
    /\ \A f \in FileNames : writes[f] <= 1
    /\ writes[ListingsCsv] = 0 /\ writes[NeighborhoodsCsv] = 0
    /\ \A f \in {NeighborhoodsGpkg, ListingsGpkg} :
          /\ files[f].exists = (writes[f] = 1)
          /\ Completed("to_file") = (writes[f] = 1)
          /\ files[f].exists => files[f].crs = WGS84
    /\ (listings.crs = WebMercator \/ neighborhoods.crs = WebMercator)
          => Persisted
    /\ Persisted
          => /\ files[NeighborhoodsGpkg].cols = {"hood_id", "geometry"}
             /\ files[ListingsGpkg].cols = ListingCols \cup {"geometry"}
             /\ \A i \in 1..Len(InListings) :
                   files[ListingsGpkg].rows[i].price = InListings[i].price
    /\ Reloaded => df.crs = WGS84
    /\ pc = "clean_price"
          => /\ listings.crs = WGS84
             /\ \A i \in 1..Len(InListings) :
                   listings.rows[i].price = InListings[i].price
    /\ Len(figures) >= 1
          => /\ figures[1] = Figure("map", WebMercator, WebMercator, <<>>)
             /\ \A k \in 2..Len(figures) : WebMercator \notin
                   {figures[k].crs[1], figures[k].crs[2]}
    /\ Completed("clean_price") => listings.crs = WGS84 /\ df.crs = WGS84

C10_Witness ==
    /\ pc = "done"
    /\ writes[NeighborhoodsGpkg] = 1 /\ writes[ListingsGpkg] = 1
    /\ neighborhoods.crs = WebMercator
    /\ Len(figures) = 3

====
